---- MODULE Spec2Model ----
(***************************************************************************)
(* Model of src/bot.py: the GO Transit departure query between Aldershot   *)
(* and Union.  parse_gtfs loads stop_times.txt, normalises every           *)
(* departure_time with fix_time_format, merges with trips.txt and calls    *)
(* get_upcoming_trips once per direction.                                  *)
(*                                                                         *)
(* A datetime is a record [date, hour, minute, second]; date counts the    *)
(* calendar days from an arbitrary day 0.  A raw GTFS time string is the   *)
(* record [pad, fields]: fields is what split(":") returns, one token per  *)
(* field, and pad tells whether the string carries surrounding blanks.     *)
(***************************************************************************)
EXTENDS Integers, Sequences, FiniteSets

VARIABLES
    stop_times_df,   \* the DataFrame of parse_gtfs: a sequence of rows
    trips_df,        \* the trip_id column of trips.txt
    fixed,           \* the Series that .apply(fix_time_format) is building
    fix_call,        \* the latest call of fix_time_format: argument, today, outcome
    clock,           \* the wall clock read by datetime.today() / datetime.now()
    pc,              \* position of parse_gtfs
    current_time,    \* current_time of each get_upcoming_trips call
    al_to_un_trips,  \* result of the Aldershot -> Union call
    un_to_al_trips   \* result of the Union -> Aldershot call

vars == << stop_times_df, trips_df, fixed, fix_call, clock, pc, current_time,
           al_to_un_trips, un_to_al_trips >>

----------------------------------------------------------------------------
(* Program constants *)

ALDERSHOT_STOP_ID == "AL"
UNION_STOP_ID == "UN"
OTHER_STOP_ID == "OA"

\* len(unique_trips) == 3
Count == 3

----------------------------------------------------------------------------
(* Bounds of the model *)

\* instants of a normalised table are day 0, hours 1 .. MaxTime
MaxTime == 2
\* rows of one trip in a normalised table
MaxStops == 3
\* rows of a raw stop_times.txt
MaxRows == 2
\* the wall clock runs over days 0 .. MaxDay
MaxDay == 1

----------------------------------------------------------------------------
(* datetime *)

At(d, h, m, s) == [date |-> d, hour |-> h, minute |-> m, second |-> s]

Secs(t) == ((t.date * 24 + t.hour) * 60 + t.minute) * 60 + t.second

\* datetime ordering: a < b
Before(a, b) == Secs(a) < Secs(b)

\* today + timedelta(days=1)
NextDay(t) == [t EXCEPT !.date = @ + 1]

----------------------------------------------------------------------------
(* Raw time strings *)

Tok(n) == [int |-> TRUE, val |-> n]
\* a field int() rejects
NaI == [int |-> FALSE, val |-> 0]

RawTime(p, f) == [pad |-> p, fields |-> f]
HMS(h, m, s) == RawTime(FALSE, << Tok(h), Tok(m), Tok(s) >>)

\* .astype(str).str.strip()
StrStrip(raw) == [raw EXCEPT !.pad = FALSE]

----------------------------------------------------------------------------
(* fix_time_format *)

ValueError == [err |-> TRUE, val |-> At(0, 0, 0, 0)]
Returned(t) == [err |-> FALSE, val |-> t]

\* datetime(year, month, day, hours, minutes, seconds)
MakeDatetime(day, hours, minutes, seconds) ==
    IF hours \in 0..23 /\ minutes \in 0..59 /\ seconds \in 0..59
    THEN Returned(At(day.date, hours, minutes, seconds))
    ELSE ValueError

\* fix_time_format(gtfs_time) with datetime.today() = today
fix_time_format(gtfs_time, today) ==
    LET f == gtfs_time.fields IN
    IF Len(f) # 3 \/ \E k \in 1..Len(f) : ~f[k].int
    THEN ValueError
    ELSE LET hours == f[1].val
             minutes == f[2].val
             seconds == f[3].val
         IN IF hours >= 24
            THEN MakeDatetime(NextDay(today), hours - 24, minutes, seconds)
            ELSE MakeDatetime(today, hours, minutes, seconds)

----------------------------------------------------------------------------
(* get_upcoming_trips *)

Row(t, s, q, d) ==
    [trip_id |-> t, stop_id |-> s, stop_sequence |-> q, departure_time |-> d]

Entry(dep, arr, t) == [dep |-> dep, arr |-> arr, trip_id |-> t]

RECURSIVE MaskFrom(_, _, _)
MaskFrom(df, mask, k) ==
    IF k > Len(df) THEN << >>
    ELSE IF mask[k] THEN << df[k] >> \o MaskFrom(df, mask, k + 1)
         ELSE MaskFrom(df, mask, k + 1)

\* df[mask]: the rows whose mask entry is True, in order
Masked(df, mask) == MaskFrom(df, mask, 1)

\* df[df["stop_id"].isin(stops)], df[df["stop_id"] == stop]
WithStop(df, stops) == Masked(df, [k \in 1..Len(df) |-> df[k].stop_id \in stops])

\* the group of one key of groupby("trip_id")
WithTrip(df, trip_id) == Masked(df, [k \in 1..Len(df) |-> df[k].trip_id = trip_id])

RECURSIVE Concat(_, _)
\* the rows of g[1], ..., g[n], one after the other
Concat(g, n) == IF n = 0 THEN << >> ELSE Concat(g, n - 1) \o g[n]

RECURSIVE InsertBySeq(_, _)
InsertBySeq(sorted, row) ==
    IF sorted = << >> THEN << row >>
    ELSE IF row.stop_sequence < Head(sorted).stop_sequence
         THEN << row >> \o sorted
         ELSE << Head(sorted) >> \o InsertBySeq(Tail(sorted), row)

RECURSIVE SortBySeqFrom(_, _)
SortBySeqFrom(group, k) ==
    IF k = 0 THEN << >>
    ELSE InsertBySeq(SortBySeqFrom(group, k - 1), group[k])

\* group.sort_values("stop_sequence").  Rows with equal stop_sequence keep their
\* order here; the tables below give every row of a trip its own stop_sequence,
\* so the order pandas gives to equal keys never matters.
SortBySeq(group) == SortBySeqFrom(group, Len(group))

RECURSIVE SortedIds(_)
\* the keys of groupby("trip_id"), ascending
SortedIds(ids) ==
    IF ids = {} THEN << >>
    ELSE LET m == CHOOSE x \in ids : \A y \in ids : x <= y
         IN << m >> \o SortedIds(ids \ {m})

\* the comparison with >= in place of >
UpcomingOrNow(departure_time, now) == ~Before(departure_time, now)

\* departure_time > current_time
Upcoming(departure_time, now) == Before(now, departure_time)

\* a sort keyed on (departure_time, trip_id) only
TupleLessDepId(a, b) ==
    \/ Before(a.dep, b.dep)
    \/ a.dep = b.dep /\ a.trip_id < b.trip_id

\* tuple comparison of (departure_time, arrival_time, trip_id)
TupleLess(a, b) ==
    \/ Before(a.dep, b.dep)
    \/ a.dep = b.dep /\ Before(a.arr, b.arr)
    \/ a.dep = b.dep /\ a.arr = b.arr /\ a.trip_id < b.trip_id

RECURSIVE InsertTuple(_, _)
InsertTuple(sorted, e) ==
    IF sorted = << >> THEN << e >>
    ELSE IF TupleLess(e, Head(sorted))
         THEN << e >> \o sorted
         ELSE << Head(sorted) >> \o InsertTuple(Tail(sorted), e)

RECURSIVE SortTuplesFrom(_, _)
SortTuplesFrom(l, k) ==
    IF k = 0 THEN << >>
    ELSE InsertTuple(SortTuplesFrom(l, k - 1), l[k])

\* valid_trips.sort()
SortTuples(l) == SortTuplesFrom(l, Len(l))

\* one iteration of "for trip_id, group in trip_groups": what it appends
GroupTrips(relevant, trip_id, start_stop, end_stop, now) ==
    LET group == SortBySeq(WithTrip(relevant, trip_id))
        start_row == WithStop(group, {start_stop})
        end_row == WithStop(group, {end_stop})
    IN IF start_row # << >> /\ end_row # << >>
       THEN LET departure_time == start_row[1].departure_time
                arrival_time == end_row[1].departure_time
            IN IF Upcoming(departure_time, now)
               THEN << Entry(departure_time, arrival_time, trip_id) >>
               ELSE << >>
       ELSE << >>

RECURSIVE ValidTripsFrom(_, _, _, _, _)
ValidTripsFrom(relevant, ids, start_stop, end_stop, now) ==
    IF ids = << >> THEN << >>
    ELSE GroupTrips(relevant, Head(ids), start_stop, end_stop, now)
         \o ValidTripsFrom(relevant, Tail(ids), start_stop, end_stop, now)

\* valid_trips when the first loop ends
ValidTrips(df, start_stop, end_stop, now) ==
    LET relevant == WithStop(df, {start_stop, end_stop})
        ids == SortedIds({relevant[k].trip_id : k \in 1..Len(relevant)})
    IN ValidTripsFrom(relevant, ids, start_stop, end_stop, now)

RECURSIVE UniqueTripsNoBreak(_, _, _, _)
\* the second loop without its break
UniqueTripsNoBreak(valid_trips, k, unique_trips, seen_trip_ids) ==
    IF k > Len(valid_trips) THEN unique_trips
    ELSE LET e == valid_trips[k]
             fresh == e.trip_id \notin seen_trip_ids
             unique == IF fresh THEN Append(unique_trips, e) ELSE unique_trips
             seen == IF fresh THEN seen_trip_ids \cup {e.trip_id} ELSE seen_trip_ids
         IN UniqueTripsNoBreak(valid_trips, k + 1, unique, seen)

RECURSIVE UniqueTripsFrom(_, _, _, _)
\* "for dep, arr, trip_id in valid_trips" from position k on
UniqueTripsFrom(valid_trips, k, unique_trips, seen_trip_ids) ==
    IF k > Len(valid_trips) THEN unique_trips
    ELSE LET e == valid_trips[k]
             fresh == e.trip_id \notin seen_trip_ids
             unique == IF fresh THEN Append(unique_trips, e) ELSE unique_trips
             seen == IF fresh THEN seen_trip_ids \cup {e.trip_id} ELSE seen_trip_ids
         IN IF Len(unique) = Count THEN unique
            ELSE UniqueTripsFrom(valid_trips, k + 1, unique, seen)

RECURSIVE FirstRows(_, _)
FirstRows(l, n) ==
    IF n = 0 \/ l = << >> THEN << >> ELSE << Head(l) >> \o FirstRows(Tail(l), n - 1)

\* one candidate per upcoming row of the start stop instead of one per trip, and
\* no look at seen_trip_ids
get_upcoming_trips_per_row(df, start_stop, end_stop, now) ==
    LET start_rows == WithStop(df, {start_stop})
        Candidate(r) ==
            LET end_row == WithStop(SortBySeq(WithTrip(df, r.trip_id)), {end_stop})
            IN IF end_row # << >> /\ Upcoming(r.departure_time, now)
               THEN << Entry(r.departure_time, end_row[1].departure_time, r.trip_id) >>
               ELSE << >>
        candidates == [k \in 1..Len(start_rows) |-> Candidate(start_rows[k])]
    IN FirstRows(SortTuples(Concat(candidates, Len(candidates))), Count)

\* The list get_upcoming_trips returns.  The code returns the pairs (dep, arr);
\* each entry here also carries the trip_id that was added to seen_trip_ids
\* together with it.
get_upcoming_trips(df, start_stop, end_stop, now) ==
    UniqueTripsFrom(SortTuples(ValidTrips(df, start_stop, end_stop, now)),
                    1, << >>, {})

----------------------------------------------------------------------------
(* parse_gtfs *)

NoTime == At(0, 0, 0, 0)
NoCall == [called |-> FALSE, raw |-> RawTime(FALSE, << >>), today |-> NoTime,
           out |-> ValueError]

\* stop_times_df["departure_time"] = <the Series built by apply>
AssignColumn(df, series) ==
    [k \in 1..Len(df) |-> [df[k] EXCEPT !.departure_time = series[k]]]

\* NaT, the missing datetime
NaT == [date |-> -1, hour |-> 0, minute |-> 0, second |-> 0]

\* stop_times_df.dropna(subset=["departure_time"])
DropNa(df) == Masked(df, [k \in 1..Len(df) |-> df[k].departure_time # NaT])

\* stop_times_df.merge(trips_df, on="trip_id"); trip_id is the key of trips.txt
MergeTrips(df, trips) == Masked(df, [k \in 1..Len(df) |-> df[k].trip_id \in trips])

\* One element of .apply(fix_time_format): the next row's stripped string is
\* normalised against the date the wall clock shows at that moment.  A ValueError
\* is not caught anywhere and ends parse_gtfs.
ApplyFix ==
    /\ pc = "apply"
    /\ Len(fixed) < Len(stop_times_df)
    /\ LET raw == StrStrip(stop_times_df[Len(fixed) + 1].departure_time)
           out == fix_time_format(raw, clock)
       IN /\ fix_call' = [called |-> TRUE, raw |-> raw, today |-> clock, out |-> out]
          /\ IF out.err
             THEN /\ pc' = "aborted"
                  /\ fixed' = fixed
             ELSE /\ pc' = "apply"
                  /\ fixed' = Append(fixed, out.val)
    /\ UNCHANGED << stop_times_df, trips_df, clock, current_time,
                    al_to_un_trips, un_to_al_trips >>

\* The column assignment, dropna and the merge with trips.txt.
Merge ==
    /\ pc = "apply"
    /\ Len(fixed) = Len(stop_times_df)
    /\ stop_times_df' = MergeTrips(DropNa(AssignColumn(stop_times_df, fixed)), trips_df)
    /\ pc' = "al_to_un"
    /\ UNCHANGED << trips_df, fixed, fix_call, clock, current_time,
                    al_to_un_trips, un_to_al_trips >>

\* al_to_un_trips = get_upcoming_trips(stop_times_df, ALDERSHOT_STOP_ID, UNION_STOP_ID)
QueryAlToUn ==
    /\ pc = "al_to_un"
    /\ current_time' = [current_time EXCEPT !.al_to_un = clock]
    /\ al_to_un_trips' =
           get_upcoming_trips(stop_times_df, ALDERSHOT_STOP_ID, UNION_STOP_ID, clock)
    /\ pc' = "un_to_al"
    /\ UNCHANGED << stop_times_df, trips_df, fixed, fix_call, clock, un_to_al_trips >>

\* un_to_al_trips = get_upcoming_trips(stop_times_df, UNION_STOP_ID, ALDERSHOT_STOP_ID)
QueryUnToAl ==
    /\ pc = "un_to_al"
    /\ current_time' = [current_time EXCEPT !.un_to_al = clock]
    /\ un_to_al_trips' =
           get_upcoming_trips(stop_times_df, UNION_STOP_ID, ALDERSHOT_STOP_ID, clock)
    /\ pc' = "done"
    /\ UNCHANGED << stop_times_df, trips_df, fixed, fix_call, clock, al_to_un_trips >>

\* The wall clock moves on to the next of the given points while parse_gtfs runs.
Advance(points) ==
    /\ pc \notin {"done", "aborted"}
    /\ \E p \in points :
          /\ Before(clock, p)
          /\ \A q \in points : Before(clock, q) => ~Before(q, p)
          /\ clock' = p
    /\ UNCHANGED << stop_times_df, trips_df, fixed, fix_call, pc, current_time,
                    al_to_un_trips, un_to_al_trips >>

----------------------------------------------------------------------------
(* The load: parse_gtfs from a raw stop_times.txt *)

\* hours at which the wall clock is observed during a load
LoadHours == {7, 23}
LoadClock == {At(d, h, 0, 0) : d \in 0..MaxDay, h \in LoadHours}

RawTimes ==
    { RawTime(TRUE, << Tok(8), Tok(0), Tok(0) >>),
      HMS(23, 59, 59), HMS(25, 10, 0), HMS(48, 0, 0),
      HMS(8, 60, 0),
      RawTime(FALSE, << Tok(8), Tok(0) >>),
      RawTime(FALSE, << NaI, Tok(0), Tok(0) >>) }

LoadTrips == 1..MaxRows

RawRows ==
    { Row(t, s, q, d) : t \in LoadTrips, s \in {ALDERSHOT_STOP_ID, UNION_STOP_ID},
                        q \in 1..MaxRows, d \in RawTimes }

\* stop_sequence is unique within a trip
UniqueSeq(df) ==
    \A i, j \in 1..Len(df) :
        (i # j /\ df[i].trip_id = df[j].trip_id)
            => df[i].stop_sequence # df[j].stop_sequence

RawTables ==
    { df \in UNION { [1..n -> RawRows] : n \in 0..MaxRows } : UniqueSeq(df) }

TickLoad == Advance(LoadClock)

Init ==
    /\ stop_times_df \in RawTables
    /\ trips_df \in SUBSET LoadTrips
    /\ fixed = << >>
    /\ fix_call = NoCall
    /\ clock = At(0, 7, 0, 0)
    /\ pc = "apply"
    /\ current_time = [al_to_un |-> NoTime, un_to_al |-> NoTime]
    /\ al_to_un_trips = << >>
    /\ un_to_al_trips = << >>

Next == TickLoad \/ ApplyFix \/ Merge \/ QueryAlToUn \/ QueryUnToAl

Spec == Init /\ [][Next]_vars

----------------------------------------------------------------------------
(* The query: the two get_upcoming_trips calls over a normalised, merged table *)

Times == { At(0, h, 0, 0) : h \in 1..MaxTime }
QueryClock == { At(0, h, 0, 0) : h \in 0..MaxTime }

\* one trip more than a result list can hold
Trips == 1..(Count + 1)

AllStops == {ALDERSHOT_STOP_ID, UNION_STOP_ID, OTHER_STOP_ID}

\* the rows of a table in the opposite file order
Reverse(df) == [k \in 1..Len(df) |-> df[Len(df) + 1 - k]]

\* the rows of trip t, calling at st[k] at instant tm[k], stop_sequence k
Group(t, st, tm) == [k \in 1..Len(st) |-> Row(t, st[k], k, tm[k])]

\* every trip of up to n rows over the given stops
Groups(t, n, stops) ==
    { Group(t, st, tm) : st \in [1..n -> stops], tm \in [1..n -> Times] }

GroupsUpTo(t, n, stops) == UNION { Groups(t, k, stops) : k \in 0..n }

\* every trip runs Aldershot, Union: enough trips to overflow a result list
WideFrames ==
    { Concat([t \in Trips |->
                 Group(t, << ALDERSHOT_STOP_ID, UNION_STOP_ID >>, tm[t])],
             Count + 1) : tm \in [Trips -> [1..2 -> Times]] }

\* two short trips over any stops, in any order of stops and times
PairFrames ==
    { g1 \o g2 : g1 \in GroupsUpTo(1, 2, AllStops), g2 \in GroupsUpTo(2, 2, AllStops) }

\* one trip of up to MaxStops rows, stops repeated or missing
DeepFrames == GroupsUpTo(1, MaxStops, AllStops)

Frames ==
    LET inOrder == WideFrames \cup PairFrames \cup DeepFrames
    IN inOrder \cup { Reverse(df) : df \in inOrder }

TickQuery == Advance(QueryClock)

InitQuery ==
    /\ stop_times_df \in Frames
    /\ trips_df = Trips
    /\ fixed = << >>
    /\ fix_call = NoCall
    /\ clock \in QueryClock
    /\ pc = "al_to_un"
    /\ current_time = [al_to_un |-> NoTime, un_to_al |-> NoTime]
    /\ al_to_un_trips = << >>
    /\ un_to_al_trips = << >>

NextQuery == TickQuery \/ QueryAlToUn \/ QueryUnToAl

SpecQuery == InitQuery /\ [][NextQuery]_vars

----------------------------------------------------------------------------
(* Vocabulary of the properties *)

Ids(l) == { l[k].trip_id : k \in 1..Len(l) }

AlToUnReturned == pc \in {"un_to_al", "done"}
UnToAlReturned == pc = "done"

HasStop(df, t, s) ==
    \E k \in 1..Len(df) : df[k].trip_id = t /\ df[k].stop_id = s

\* the scheduled instant of trip t at its first call (lowest stop_sequence) at s
FirstTime(df, t, s) ==
    LET k == CHOOSE i \in 1..Len(df) :
                 /\ df[i].trip_id = t /\ df[i].stop_id = s
                 /\ \A j \in 1..Len(df) :
                        (df[j].trip_id = t /\ df[j].stop_id = s)
                            => df[i].stop_sequence <= df[j].stop_sequence
    IN df[k].departure_time

\* the trips that call at both stops and leave the start stop after now
Qualifying(df, start_stop, end_stop, now) ==
    { t \in { df[k].trip_id : k \in 1..Len(df) } :
        /\ HasStop(df, t, start_stop)
        /\ HasStop(df, t, end_stop)
        /\ Before(now, FirstTime(df, t, start_stop)) }

Min(a, b) == IF a <= b THEN a ELSE b

AlToUnQualifying ==
    Qualifying(stop_times_df, ALDERSHOT_STOP_ID, UNION_STOP_ID, current_time.al_to_un)
UnToAlQualifying ==
    Qualifying(stop_times_df, UNION_STOP_ID, ALDERSHOT_STOP_ID, current_time.un_to_al)

----------------------------------------------------------------------------
(* Properties *)

\* C1: when both directions are computed over the same table at the same
\* reference instant, no trip_id is an entry of both result lists.
DirectionExclusive ==
    (pc = "done" /\ current_time.al_to_un = current_time.un_to_al)
        => Ids(al_to_un_trips) \cap Ids(un_to_al_trips) = {}

\* C2: every returned entry departs from its start stop strictly before it
\* arrives at its end stop.
DepartsBeforeArrives ==
    /\ \A k \in 1..Len(al_to_un_trips) :
           Before(al_to_un_trips[k].dep, al_to_un_trips[k].arr)
    /\ \A k \in 1..Len(un_to_al_trips) :
           Before(un_to_al_trips[k].dep, un_to_al_trips[k].arr)

\* C3: no returned entry departs at or before the reference instant of the call
\* that returned it.
StrictFuture ==
    /\ AlToUnReturned =>
           \A k \in 1..Len(al_to_un_trips) :
               Before(current_time.al_to_un, al_to_un_trips[k].dep)
    /\ UnToAlReturned =>
           \A k \in 1..Len(un_to_al_trips) :
               Before(current_time.un_to_al, un_to_al_trips[k].dep)

\* a trip leaving Aldershot exactly at the reference instant was left out while
\* another trip was returned
StrictFutureWitness ==
    /\ pc = "done"
    /\ al_to_un_trips # << >>
    /\ \E k \in 1..Len(stop_times_df) :
          LET t == stop_times_df[k].trip_id IN
          /\ HasStop(stop_times_df, t, ALDERSHOT_STOP_ID)
          /\ HasStop(stop_times_df, t, UNION_STOP_ID)
          /\ FirstTime(stop_times_df, t, ALDERSHOT_STOP_ID) = current_time.al_to_un
          /\ t \notin Ids(al_to_un_trips)

\* C4 as stated: departures ascend, and equal departures are ordered by trip_id
\* alone.
TieBreakByTripId ==
    \A l \in {al_to_un_trips, un_to_al_trips} :
        \A i, j \in 1..Len(l) :
            i < j => /\ ~Before(l[j].dep, l[i].dep)
                     /\ (l[i].dep = l[j].dep => l[i].trip_id < l[j].trip_id)

\* C4 amended: departures ascend; equal departures are ordered by arrival, and
\* only equal departures with equal arrivals are ordered by trip_id.
SortedByDepArrId ==
    \A l \in {al_to_un_trips, un_to_al_trips} :
        \A i, j \in 1..Len(l) :
            i < j => /\ ~Before(l[j].dep, l[i].dep)
                     /\ (l[i].dep = l[j].dep => ~Before(l[j].arr, l[i].arr))
                     /\ (l[i].dep = l[j].dep /\ l[i].arr = l[j].arr
                            => l[i].trip_id < l[j].trip_id)

\* two entries with the same departure: the one with the earlier arrival comes
\* first although its trip_id is the larger
SortedByDepArrIdWitness ==
    /\ pc = "done"
    /\ \E i, j \in 1..Len(al_to_un_trips) :
          /\ i < j
          /\ al_to_un_trips[i].dep = al_to_un_trips[j].dep
          /\ Before(al_to_un_trips[i].arr, al_to_un_trips[j].arr)
          /\ al_to_un_trips[i].trip_id > al_to_un_trips[j].trip_id

\* the result l is the head of the qualifying trips q of one call
IsTopN(l, q, df, start_stop, end_stop) ==
    /\ Len(l) = Min(Count, Cardinality(q))
    /\ Ids(l) \subseteq q
    /\ \A k \in 1..Len(l) :
          /\ l[k].dep = FirstTime(df, l[k].trip_id, start_stop)
          /\ l[k].arr = FirstTime(df, l[k].trip_id, end_stop)
    /\ \A t \in q \ Ids(l) :
          \A k \in 1..Len(l) : ~Before(FirstTime(df, t, start_stop), l[k].dep)

\* C5: each result holds min(3, q) of the q qualifying trips, and no qualifying
\* trip left out departs earlier than a returned one.
TopN ==
    /\ AlToUnReturned =>
           IsTopN(al_to_un_trips, AlToUnQualifying, stop_times_df,
                  ALDERSHOT_STOP_ID, UNION_STOP_ID)
    /\ UnToAlReturned =>
           IsTopN(un_to_al_trips, UnToAlQualifying, stop_times_df,
                  UNION_STOP_ID, ALDERSHOT_STOP_ID)

\* more trips qualified than a result holds, and one of those left out departs
\* strictly later than a returned one
TopNWitness ==
    /\ pc = "done"
    /\ Cardinality(AlToUnQualifying) > Count
    /\ \E t \in AlToUnQualifying \ Ids(al_to_un_trips) :
          Before(al_to_un_trips[1].dep,
                 FirstTime(stop_times_df, t, ALDERSHOT_STOP_ID))

\* C6: the trip_ids of one result list are pairwise distinct.
NoDuplicateTrips ==
    \A l \in {al_to_un_trips, un_to_al_trips} :
        \A i, j \in 1..Len(l) : i # j => l[i].trip_id # l[j].trip_id

\* a returned trip has two rows for the start stop, both upcoming
NoDuplicateTripsWitness ==
    /\ pc = "done"
    /\ \E e \in 1..Len(al_to_un_trips) :
          \E i, j \in 1..Len(stop_times_df) :
              /\ i # j
              /\ stop_times_df[i].trip_id = al_to_un_trips[e].trip_id
              /\ stop_times_df[j].trip_id = al_to_un_trips[e].trip_id
              /\ stop_times_df[i].stop_id = ALDERSHOT_STOP_ID
              /\ stop_times_df[j].stop_id = ALDERSHOT_STOP_ID
              /\ Before(current_time.al_to_un, stop_times_df[i].departure_time)
              /\ Before(current_time.al_to_un, stop_times_df[j].departure_time)

\* three integer fields, hour >= 0, minutes and seconds in 0..59
WellFormed(raw) ==
    /\ Len(raw.fields) = 3
    /\ \A k \in 1..3 : raw.fields[k].int
    /\ raw.fields[1].val >= 0
    /\ raw.fields[2].val \in 0..59
    /\ raw.fields[3].val \in 0..59

\* C7: a well-formed H:MM:SS on service date D is normalised to date
\* D + (H div 24), time of day (H mod 24):MM:SS, for every H >= 0.
RolloverNormalized ==
    (fix_call.called /\ WellFormed(fix_call.raw)) =>
        /\ ~fix_call.out.err
        /\ fix_call.out.val =
              At(fix_call.today.date + (fix_call.raw.fields[1].val \div 24),
                 fix_call.raw.fields[1].val % 24,
                 fix_call.raw.fields[2].val,
                 fix_call.raw.fields[3].val)

\* not three integers, or minutes or seconds outside 0..59
MalformedTime(raw) ==
    \/ Len(raw.fields) # 3
    \/ \E k \in 1..Len(raw.fields) : ~raw.fields[k].int
    \/ raw.fields[2].val \notin 0..59
    \/ raw.fields[3].val \notin 0..59

\* C8: a row whose time is malformed is left out and the query goes on; it does
\* not end the query.
MalformedRowOnlyDropped ==
    (fix_call.called /\ MalformedTime(fix_call.raw)) => pc # "aborted"

\* C9: the Union -> Aldershot selection is the one the reference instant of the
\* Aldershot -> Union selection gives: both directions use one instant.
SingleReferenceInstant ==
    pc = "done" =>
        un_to_al_trips =
            get_upcoming_trips(stop_times_df, UNION_STOP_ID, ALDERSHOT_STOP_ID,
                               current_time.al_to_un)

\* C10: rows of one load with the same raw time string get equal instants.
SingleServiceDate ==
    pc = "apply" =>
        \A i, j \in 1..Len(fixed) :
            StrStrip(stop_times_df[i].departure_time)
                = StrStrip(stop_times_df[j].departure_time)
            => fixed[i] = fixed[j]

====
